---- MODULE Spec2Model ----
(***************************************************************************)
(* A model of elliott/oit/packages/runtime.py: the Runtime object of the   *)
(* build orchestrator.  Runtime.initialize() is modelled step by step      *)
(* (workspace set-up, group.yml, directory listing, include / exclude      *)
(* selection, registry population); add_record, info and log_verbose are   *)
(* modelled as operations of concurrent workers sharing Runtime.log_lock.  *)
(* The lookups (resolve_image, resolve_stream, register_stream_alias), the *)
(* flag files (flag_create, flag_exists, flag_remove, the last one in its  *)
(* two steps) and the atexit handlers run at process exit are modelled too.*)
(*                                                                         *)
(* Artifact names are the numbers 1..NumNames.  self.include, self.exclude *)
(* and self.optional_include are used by the code only through "in", len() *)
(* and set(), so each is modelled as a set of names; None is the empty     *)
(* tuple and a list L is the one-element tuple <<L>>.  self.branch and the *)
(* texts of the messages initialize() prints do not influence any other    *)
(* field and are left out.                                                 *)
(***************************************************************************)
EXTENDS Integers, Sequences, FiniteSets, TLC

\* ------------------------------------------------------------------ bounds
\* Number of distinct artifact names (directory names, filter entries).
NumNames == 2

\* How many times the caller calls initialize() in the life-cycle specification.
MaxCalls == 2

\* Workers (build processes) that share the Runtime and its logs.
NumWorkers == 2

\* Calls of add_record / info / log_verbose each worker makes.
MaxOps == 1

\* Total number of characters in the arguments of one add_record call, and
\* the number of its keyword arguments.
MaxChars == 2

MaxFields == 2

\* Number of distinct flag names, and flag calls each worker makes.
NumFlags == 2

MaxFlagOps == 2

\* Number of distinct stream names, and register_stream_alias calls made.
NumStreams == 2

MaxRegs == 2

Names == 1..NumNames

Workers == 1..NumWorkers

Flags == 1..NumFlags

StreamNames == 1..NumStreams

\* ------------------------------------------------------- values and helpers
\* Python's None / a Python list held in an attribute.
NoneVal == <<>>

Some(s) == <<s>>

IsNone(o) == o = NoneVal

\* The list held by an attribute that is not None.
Val(o) == o[1]

\* A Python dict is a function on its keys: {} and d[k] = v.
EmptyDict == [k \in {} |-> 0]

DictPut(d, k, v) == [x \in DOMAIN d \cup {k} |-> IF x = k THEN v ELSE d[x]]

\* All dicts from keys in K to values in V.
Dicts(K, V) == UNION {[D -> V] : D \in SUBSET K}

\* name in lst  (lst a Python list, modelled as a sequence)
InList(x, lst) == \E i \in 1..Len(lst) : lst[i] = x

\* set(lst)
ToSet(lst) == {lst[i] : i \in 1..Len(lst)}

\* lst.remove(x): removes the first occurrence of x.
RECURSIVE ListRemove(_, _)
ListRemove(lst, x) ==
    IF lst = <<>> THEN <<>>
    ELSE IF Head(lst) = x THEN Tail(lst)
    ELSE <<Head(lst)>> \o ListRemove(Tail(lst), x)

\* Sequences over S without repetition: what os.listdir() can return for a
\* directory whose sub-directories are a subset of S, in any order.
RECURSIVE Listings(_)
Listings(S) ==
    {<<>>} \cup UNION {{<<x>> \o l : l \in Listings(S \ {x})} : x \in S}

\* ---------------------------------------------------------------- variables
VARIABLES
    \* attributes of the Runtime object
    group,                  \* NoneVal or Some(group name)
    working_dir,            \* "None", "given" (caller supplied) or "tmp" (mkdtemp)
    remove_tmp_working_dir,
    include,                \* NoneVal or Some(set of names)
    exclude,                \* NoneVal or Some(set of names)
    optional_include,       \* set of names
    verbose,
    image_map,              \* keys of self.image_map
    rpm_map,                \* keys of self.rpm_map
    initialized,
    debug_log,              \* 0 (None) or the handle of the open file
    record_log,             \* 0 (None) or the handle of the open file
    \* process state outside the object
    atexit,                 \* handlers registered with atexit.register, in order
    opened,                 \* number of open() calls made so far (handle ids)
    mkdirs,                 \* number of os.mkdir() calls made so far
    \* the metadata directory on disk
    fs_images,              \* listing of groups/<group>/images (directories only)
    fs_rpms,                \* listing of groups/<group>/rpms (directories only)
    \* the working directory on disk
    fs_subdirs,             \* distgits, distgits-diffs, brew-logs and flags exist
    \* control state of initialize()
    pc,
    error,                  \* the error that ended initialize(): its kind ("none"
                            \* if there is none) and the names its message lists
    calls_left,             \* calls of initialize() the caller still makes
    loc,                    \* local variables of initialize()
    \* the logs
    log_lock,               \* Runtime.log_lock: 0 (free) or the worker holding it
    record_file,            \* the characters of record.log on disk
    debug_file,             \* the messages of debug.log on disk
    console,                \* the messages echoed to the console
    \* the workers
    wpc,                    \* where each worker is in the call it makes
    wargs,                  \* the arguments of that call
    wrec,                   \* add_record's local variable record
    wbuf,                   \* what the worker wrote to record.log and is still
                            \* in its file buffer
    wraised,                \* the worker's last call ended with an exception
    ops_left,               \* calls each worker still makes
    \* more attributes of the Runtime object
    group_config,           \* "None" or "loaded" (the Model of group.yml)
    streams,                \* self.streams: stream name -> image
    stream_alias_overrides, \* self.stream_alias_overrides: alias -> image
    \* more of the metadata directory on disk
    fs_kind_dirs,           \* which of groups/<group>/images and rpms exist
    fs_streams,             \* NoneVal (no streams.yml) or Some(its mapping)
    \* the flags directory on disk
    fs_flags,               \* names of the files in <working_dir>/flags
    \* the caller of the lookups
    registered,             \* the register_stream_alias calls made, in order
    result,                 \* the last lookup call and what it returned or raised
    \* the callers of the flag operations
    fpc,                    \* where each worker is in its flag call
    fargs,                  \* the operation and flag name of that call
    fres,                   \* what the worker's last flag call returned or raised
    flag_last,              \* per flag name, the last completed create / remove
    flag_ops_left,          \* flag calls each worker still makes
    \* process exit
    ran,                    \* the atexit handlers run so far, in order
    closed,                 \* handles of the files closed
    removed                 \* the working directories removed by rmtree

rtVars == <<group, working_dir, remove_tmp_working_dir, include, exclude,
            optional_include, verbose, image_map, rpm_map, initialized,
            debug_log, record_log>>

procVars == <<atexit, opened, mkdirs>>

fsVars == <<fs_images, fs_rpms, fs_subdirs>>

ctlVars == <<pc, error, calls_left, loc>>

logVars == <<log_lock, record_file, debug_file, console>>

workerVars == <<wpc, wargs, wrec, wbuf, wraised, ops_left>>

cfgVars == <<group_config, streams>>

envVars == <<fs_kind_dirs, fs_streams>>

lookupVars == <<stream_alias_overrides, registered, result>>

flagVars == <<fs_flags, fpc, fargs, fres, flag_last, flag_ops_left>>

exitVars == <<ran, closed, removed>>

\* Everything initialize(), add_record, info and log_verbose leave alone,
\* apart from group_config and streams.
restVars == <<envVars, lookupVars, flagVars, exitVars>>

auxVars == <<cfgVars, restVars>>

\* The two per-kind directories of a group.
KindDirs == {"images", "rpms"}

\* A metadata directory with both per-kind directories and no streams.yml, an
\* empty flags directory, and no flag calls to make.
PlainEnvironment ==
    /\ fs_kind_dirs = KindDirs
    /\ fs_streams = NoneVal
    /\ fs_flags = {}
    /\ flag_ops_left = [w \in Workers |-> 0]

\* The arguments of a worker that has made no call yet.
NoCall == [op |-> "none", record_type |-> <<>>, kwargs |-> <<>>, message |-> <<>>]

NoError == [kind |-> "none", names |-> {}]

\* No lookup made yet; no flag call made yet.
NoResult == [op |-> "none", name |-> 0, required |-> FALSE, kind |-> "none", value |-> 0]

NoFlagCall == [op |-> "none", flag |-> 0]

NoFlagResult == [kind |-> "none", value |-> FALSE]

\* Local variables of initialize() before any is assigned.
NoLocals ==
    [images_list |-> <<>>, rpms_list |-> <<>>,
     image_include |-> <<>>, image_optional_include |-> <<>>, image_exclude |-> <<>>,
     rpm_include |-> <<>>, rpm_optional_include |-> <<>>, rpm_exclude |-> <<>>]

\* ------------------------------------------------- the selection algorithm
\* The per-kind partition loop (lines 178-198): the names of the listing that
\* are in the given filter, in listing order.
RECURSIVE Partition(_, _)
Partition(name_list, filter) ==
    IF name_list = <<>> THEN <<>>
    ELSE (IF Head(name_list) \in filter THEN <<Head(name_list)>> ELSE <<>>)
         \o Partition(Tail(name_list), filter)

\* missed_include / missed_optional_include (lines 200, 204):
\* set(wanted) - set(image_found + rpm_found)
MissedIncludeReversed(wanted, image_found, rpm_found) ==
    ToSet(image_found \o rpm_found) \ wanted

MissedInclude(wanted, image_found, rpm_found) ==
    wanted \ ToSet(image_found \o rpm_found)

\* The selective-mode test of collect_configs (line 221).
SelectiveAlways(check_include, check_optional_include) == TRUE

Selective(check_include, check_optional_include) ==
    check_include \/ check_optional_include

\* The exclusion test of collect_configs (line 233); self_exclude is self.exclude.
IsExcludedOnlyUnselected(check_include, check_optional_include, check_exclude, name, self_exclude) ==
    /\ ~(check_include \/ check_optional_include)
    /\ check_exclude
    /\ name \in self_exclude

IsExcluded(check_include, check_optional_include, check_exclude, name, self_exclude) ==
    check_exclude /\ name \in self_exclude

\* collect_configs (lines 214-238) for one kind.  The result holds the two
\* lists the loop consumes from and the names gen() was called with, in order.
RECURSIVE CollectLoop(_, _, _, _, _, _, _, _)
CollectLoop(name_list, inc, opt, gen, check_include, check_optional_include, check_exclude, self_exclude) ==
    IF name_list = <<>>
    THEN [include |-> inc, optional_include |-> opt, gen |-> gen]
    ELSE
      LET distgit_repo_name == Head(name_list)
          rest == Tail(name_list)
          selective == Selective(check_include, check_optional_include)
          byInclude == selective /\ check_include /\ InList(distgit_repo_name, inc)
          byOptional == selective /\ ~byInclude /\ check_optional_include
                        /\ InList(distgit_repo_name, opt)
          inc2 == IF byInclude THEN ListRemove(inc, distgit_repo_name) ELSE inc
          opt2 == IF byOptional THEN ListRemove(opt, distgit_repo_name) ELSE opt
          skipped == selective /\ ~byInclude /\ ~byOptional
          excluded == IsExcluded(check_include, check_optional_include,
                                 check_exclude, distgit_repo_name, self_exclude)
          gen2 == IF skipped \/ excluded THEN gen ELSE Append(gen, distgit_repo_name)
      IN  CollectLoop(rest, inc2, opt2, gen2, check_include,
                      check_optional_include, check_exclude, self_exclude)

CollectConfigs(name_list, include_l, optional_include_l, exclude_l, self_exclude) ==
    CollectLoop(name_list, include_l, optional_include_l, <<>>,
                Len(include_l) > 0, Len(optional_include_l) > 0,
                Len(exclude_l) > 0, self_exclude)

\* The final test of initialize() (line 248).
NoMetadataNever(images, rpms) == Cardinality(images) + Cardinality(rpms) < 0

NoMetadata(images, rpms) == Cardinality(images) + Cardinality(rpms) = 0

\* ------------------------------------------------------------- construction
\* Runtime.__init__ (lines 39-80) with the keyword arguments given.
Constructed(kw_group, kw_working_dir, kw_include, kw_exclude, kw_optional_include, kw_verbose) ==
    /\ group = kw_group
    /\ working_dir = kw_working_dir
    /\ include = kw_include
    /\ exclude = kw_exclude
    /\ optional_include = kw_optional_include
    /\ verbose = kw_verbose
    /\ remove_tmp_working_dir = FALSE
    /\ image_map = {}
    /\ rpm_map = {}
    /\ initialized = FALSE
    /\ debug_log = 0
    /\ record_log = 0
    /\ atexit = <<>>
    /\ opened = 0
    /\ mkdirs = 0
    /\ pc = "idle"
    /\ error = NoError
    /\ loc = NoLocals
    /\ log_lock = 0
    /\ record_file = <<>>
    /\ debug_file = <<>>
    /\ console = <<>>
    /\ wpc = [w \in Workers |-> "idle"]
    /\ wargs = [w \in Workers |-> NoCall]
    /\ wrec = [w \in Workers |-> <<>>]
    /\ wbuf = [w \in Workers |-> <<>>]
    /\ wraised = [w \in Workers |-> FALSE]
    /\ group_config = "None"
    /\ streams = EmptyDict
    /\ stream_alias_overrides = EmptyDict
    /\ registered = <<>>
    /\ result = NoResult
    /\ fpc = [w \in Workers |-> "idle"]
    /\ fargs = [w \in Workers |-> NoFlagCall]
    /\ fres = [w \in Workers |-> NoFlagResult]
    /\ flag_last = [f \in Flags |-> "none"]
    /\ ran = <<>>
    /\ closed = {}
    /\ removed = {}

\* ------------------------------------------------------ initialize(), steps
\* An exception (or exit(1)) leaves initialize(); nothing catches it.
RaiseNaming(kind, names) ==
    /\ pc' = "failed"
    /\ error' = [kind |-> kind, names |-> names]

Raise(kind) == RaiseNaming(kind, {})

\* Lines 82-94: the initialized guard, the group test, assert_dir(metadata_dir).
InitializeEnter ==
    /\ pc \in {"idle", "returned"}
    /\ calls_left > 0
    /\ calls_left' = calls_left - 1
    /\ \E metadata_ok \in BOOLEAN :
         IF initialized
         THEN pc' = "returned" /\ error' = error
         ELSE IF IsNone(group)
         THEN Raise("usage")
         ELSE IF ~metadata_ok
         THEN Raise("ConfigurationError")
         ELSE pc' = "working_dir" /\ error' = error
    /\ UNCHANGED <<rtVars, procVars, fsVars, loc>>
    /\ UNCHANGED <<logVars, workerVars, auxVars>>

\* The test "if self.working_dir is None" (line 96).
NoWorkingDirAlways(wd) == TRUE

NoWorkingDir(wd) == wd = "None"

\* Lines 96-102: the working directory.
InitializeWorkingDir ==
    /\ pc = "working_dir"
    /\ \E dir_ok \in BOOLEAN :
         IF NoWorkingDir(working_dir)
         THEN /\ working_dir' = "tmp"
              /\ remove_tmp_working_dir' = TRUE
              /\ atexit' = Append(atexit, <<"remove_tmp_working_dir">>)
              /\ pc' = "logs" /\ error' = error
         ELSE IF ~dir_ok
         THEN /\ Raise("ConfigurationError")
              /\ UNCHANGED <<working_dir, remove_tmp_working_dir, atexit>>
         ELSE /\ pc' = "logs" /\ error' = error
              /\ UNCHANGED <<working_dir, remove_tmp_working_dir, atexit>>
    /\ UNCHANGED <<group, include, exclude, optional_include, verbose, image_map,
                   rpm_map, initialized, debug_log, record_log, opened, mkdirs,
                   fsVars, calls_left, loc>>
    /\ UNCHANGED <<logVars, workerVars, auxVars>>

\* Lines 104-128: the four sub-directories and the two append-mode log files.
\* A sub-directory is created only if it is not there yet.
InitializeWorkspace ==
    /\ pc = "logs"
    /\ mkdirs' = IF fs_subdirs THEN mkdirs ELSE mkdirs + 4
    /\ fs_subdirs' = TRUE
    /\ debug_log' = opened + 1
    /\ record_log' = opened + 2
    /\ opened' = opened + 2
    /\ atexit' = atexit \o << <<"close_file", opened + 1>>, <<"close_file", opened + 2>> >>
    /\ pc' = "group_dir"
    /\ UNCHANGED <<group, working_dir, remove_tmp_working_dir, include, exclude,
                   optional_include, verbose, image_map, rpm_map, initialized,
                   fs_images, fs_rpms, error, calls_left, loc>>
    /\ UNCHANGED <<logVars, workerVars, auxVars>>

\* Lines 130-137: three assert_dir calls, all of them on group_dir.
InitializeGroupDir ==
    /\ pc = "group_dir"
    /\ \E group_dir_ok \in BOOLEAN :
         IF ~group_dir_ok
         THEN Raise("ConfigurationError")
         ELSE pc' = "group_yml" /\ error' = error
    /\ UNCHANGED <<rtVars, procVars, fsVars, calls_left, loc>>
    /\ UNCHANGED <<logVars, workerVars, auxVars>>

\* Lines 139-169: group.yml is read, its name compared, its excludes and
\* includes taken when the caller gave none; len(None) raises TypeError.
InitializeGroupYml ==
    /\ pc = "group_yml"
    /\ \E name_ok \in BOOLEAN,
          yml_excludes \in {NoneVal} \cup {Some(s) : s \in SUBSET Names},
          yml_includes \in {NoneVal} \cup {Some(s) : s \in SUBSET Names} :
         IF ~name_ok
         THEN /\ Raise("ConfigurationError")
              /\ UNCHANGED <<include, exclude>>
         ELSE
           LET exclude2 == IF ~IsNone(yml_excludes) /\ IsNone(exclude)
                           THEN yml_excludes ELSE exclude
               include2 == IF ~IsNone(yml_includes) /\ IsNone(include)
                           THEN yml_includes ELSE include
           IN  /\ exclude' = exclude2
               /\ include' = include2
               /\ IF IsNone(include2) \/ IsNone(exclude2)
                  THEN Raise("TypeError")
                  ELSE pc' = "listing" /\ error' = error
    /\ UNCHANGED <<group, working_dir, remove_tmp_working_dir, optional_include,
                   verbose, image_map, rpm_map, initialized, debug_log, record_log,
                   procVars, fsVars, calls_left, loc>>
    /\ group_config' = "loaded"
    /\ UNCHANGED <<logVars, workerVars, streams, restVars>>

\* Lines 171-206: the two listings, the per-kind partitions and the two
\* "missed" tests.  A missing images/ or rpms/ directory makes Dir() raise.
InitializeListing ==
    /\ pc = "listing"
    /\ LET dirs_ok == KindDirs \subseteq fs_kind_dirs IN
         IF ~dirs_ok
         THEN Raise("OSError") /\ loc' = loc
         ELSE
           LET l == [images_list |-> fs_images,
                     rpms_list |-> fs_rpms,
                     image_include |-> Partition(fs_images, Val(include)),
                     image_optional_include |-> Partition(fs_images, optional_include),
                     image_exclude |-> Partition(fs_images, Val(exclude)),
                     rpm_include |-> Partition(fs_rpms, Val(include)),
                     rpm_optional_include |-> Partition(fs_rpms, optional_include),
                     rpm_exclude |-> Partition(fs_rpms, Val(exclude))]
               missed_include ==
                   MissedInclude(Val(include), l.image_include, l.rpm_include)
           IN  /\ loc' = l
               /\ IF Cardinality(missed_include) > 0
                  THEN RaiseNaming("SelectionError", missed_include)
                  ELSE pc' = "collect_images" /\ error' = error
    /\ UNCHANGED <<rtVars, procVars, fsVars, calls_left>>
    /\ UNCHANGED <<logVars, workerVars, auxVars>>

\* Lines 240-242: collect_configs('image', ...) with gen_ImageMetadata.
InitializeCollectImages ==
    /\ pc = "collect_images"
    /\ LET r == CollectConfigs(loc.images_list, loc.image_include,
                               loc.image_optional_include, loc.image_exclude,
                               Val(exclude))
       IN  /\ image_map' = image_map \cup ToSet(r.gen)
           /\ loc' = [loc EXCEPT !.image_include = r.include,
                                 !.image_optional_include = r.optional_include]
    /\ pc' = "collect_rpms"
    /\ UNCHANGED <<group, working_dir, remove_tmp_working_dir, include, exclude,
                   optional_include, verbose, rpm_map, initialized, debug_log,
                   record_log, procVars, fsVars, error, calls_left>>
    /\ UNCHANGED <<logVars, workerVars, auxVars>>

\* Lines 244-246: collect_configs('rpm', ...) with gen_RPMMetadata.
InitializeCollectRpms ==
    /\ pc = "collect_rpms"
    /\ LET r == CollectConfigs(loc.rpms_list, loc.rpm_include,
                               loc.rpm_optional_include, loc.rpm_exclude,
                               Val(exclude))
       IN  /\ rpm_map' = rpm_map \cup ToSet(r.gen)
           /\ loc' = [loc EXCEPT !.rpm_include = r.include,
                                 !.rpm_optional_include = r.optional_include]
    /\ pc' = "finish"
    /\ UNCHANGED <<group, working_dir, remove_tmp_working_dir, include, exclude,
                   optional_include, verbose, image_map, initialized, debug_log,
                   record_log, procVars, fsVars, error, calls_left>>
    /\ UNCHANGED <<logVars, workerVars, auxVars>>

\* Lines 248-255: the empty-selection test and streams.yml; initialize()
\* returns.  Nothing in initialize() assigns self.initialized.
InitializeFinish ==
    /\ pc = "finish"
    /\ IF NoMetadata(image_map, rpm_map)
       THEN Raise("EmptySelectionError") /\ streams' = streams
       ELSE /\ pc' = "returned" /\ error' = error
            /\ streams' = IF IsNone(fs_streams) THEN streams ELSE Val(fs_streams)
    /\ UNCHANGED <<rtVars, procVars, fsVars, calls_left, loc>>
    /\ UNCHANGED <<logVars, workerVars, group_config, restVars>>

Initialize ==
    \/ InitializeEnter
    \/ InitializeWorkingDir
    \/ InitializeWorkspace
    \/ InitializeGroupDir
    \/ InitializeGroupYml
    \/ InitializeListing
    \/ InitializeCollectImages
    \/ InitializeCollectRpms
    \/ InitializeFinish

\* ------------------------------------------------------------ process exit
\* The interpreter runs the functions registered with atexit.register last
\* registered first: the index in handlers of the one to run next, when the
\* ones in done have run.
NextHandlerFirstRegistered(handlers, done) == Len(done) + 1

NextHandler(handlers, done) == Len(handlers) - Len(done)

\* The process ends, after initialize() returned or raised, or without a
\* call of it: the interpreter starts running the registered handlers.
ProcessExit ==
    /\ pc \in {"idle", "returned", "failed"}
    /\ pc' = "exiting"
    /\ UNCHANGED <<error, calls_left, loc>>
    /\ UNCHANGED <<rtVars, procVars, fsVars, logVars, workerVars, auxVars>>

\* One registered handler runs: close_file(f) (lines 20-22) or
\* remove_tmp_working_dir(runtime) (lines 25-29).
RunExitHandler ==
    /\ pc = "exiting"
    /\ Len(ran) < Len(atexit)
    /\ LET h == atexit[NextHandler(atexit, ran)] IN
         /\ ran' = Append(ran, h)
         /\ IF h[1] = "close_file"
            THEN /\ closed' = closed \cup {h[2]}
                 /\ UNCHANGED <<removed, console>>
            ELSE IF remove_tmp_working_dir
            THEN /\ removed' = removed \cup {working_dir}
                 /\ UNCHANGED <<closed, console>>
            ELSE /\ console' = Append(console, <<"preserved">>)
                 /\ UNCHANGED <<closed, removed>>
    /\ UNCHANGED <<log_lock, record_file, debug_file>>
    /\ UNCHANGED <<rtVars, procVars, fsVars, ctlVars, workerVars, cfgVars,
                   envVars, lookupVars, flagVars>>

\* The process has ended: every registered handler was called.
Exited == pc = "exiting" /\ Len(ran) = Len(atexit)

\* ------------------------------------------------------ add_record, the text
\* Texts are sequences of characters.
LF == "\n"

CR == "\r"

\* The characters argument texts are made of.
Alphabet == {"a", "|", "=", LF, CR}

\* The texts of exactly n characters.
StrsOfLen(n) == [1..n -> Alphabet]

\* s.replace(c, by) for a one-character c.
RECURSIVE Replace(_, _, _)
Replace(s, c, by) ==
    IF s = <<>> THEN <<>>
    ELSE (IF Head(s) = c THEN by ELSE <<Head(s)>>) \o Replace(Tail(s), c, by)

\* Line 307: str(v).replace("\n", " ;;; ").replace("\r", "")
SanitizeKeepCR(v) == Replace(v, LF, <<" ", ";", ";", ";", " ">>)

Sanitize(v) == Replace(Replace(v, LF, <<" ", ";", ";", ";", " ">>), CR, <<>>)

\* Lines 304-308: the loop over kwargs.iteritems(); items is the sequence of
\* <<key, value>> pairs in the order the dictionary yields them.  The assert
\* on a key ends the call with AssertionError.
RECURSIVE FormatPairs(_, _)
FormatPairs(record, items) ==
    IF items = <<>> THEN [raised |-> FALSE, record |-> record]
    ELSE LET k == items[1][1]
             v == items[1][2]
         IN  IF InList(LF, k)
             THEN [raised |-> TRUE, record |-> record]
             ELSE FormatPairs(record \o k \o <<"=">> \o Sanitize(v) \o <<"|">>,
                              Tail(items))

\* Lines 303-308: record = "%s|" % record_type, then the loop.
FormatRecord(record_type, items) == FormatPairs(record_type \o <<"|">>, items)

\* The <<key, value>> pairs holding exactly n characters.
PairsOfLen(n) ==
    UNION {{<<k, v>> : k \in StrsOfLen(kl), v \in StrsOfLen(n - kl)} : kl \in 0..n}

\* The keyword arguments a call can pass: at most `fields` pairs holding at
\* most `budget` characters, each key once (a dictionary), in every order
\* the dictionary can yield them.
RECURSIVE KwItems(_, _)
KwItems(fields, budget) ==
    IF fields = 0 THEN {<<>>}
    ELSE {<<>>} \cup UNION {
           LET sub == KwItems(fields - 1, budget - n)
           IN  UNION {{<<p>> \o rest :
                          rest \in {r \in sub : \A i \in 1..Len(r) : r[i][1] # p[1]}}
                      : p \in PairsOfLen(n)}
           : n \in 0..budget}

\* The calls of add_record within the bounds.
RecordInputs ==
    UNION {{[op |-> "add_record", record_type |-> t, kwargs |-> kw, message |-> <<>>] :
               t \in StrsOfLen(tl), kw \in KwItems(MaxFields, MaxChars - tl)}
           : tl \in 0..MaxChars}

\* The calls the concurrent workers make.
WorkerInputs ==
    {[op |-> "add_record", record_type |-> <<"a">>, kwargs |-> <<>>, message |-> <<>>],
     [op |-> "info", record_type |-> <<>>, kwargs |-> <<>>, message |-> <<"m">>],
     [op |-> "log_verbose", record_type |-> <<>>, kwargs |-> <<>>, message |-> <<"m">>]}

\* The same calls, and an add_record call whose key holds a line-feed, which
\* ends with AssertionError inside the with block.
FairInputs ==
    WorkerInputs \cup
    {[op |-> "add_record", record_type |-> <<"a">>, kwargs |-> << <<<<LF>>, <<>>>> >>,
      message |-> <<>>]}

\* --------------------------------------------- the workers and the log lock
\* A worker calls add_record, info or log_verbose on the initialized Runtime.
\* info() in verbose mode is a call of log_verbose (lines 265-269).
CanCall(w) ==
    /\ pc = "returned"
    /\ wpc[w] = "idle"
    /\ ops_left[w] > 0

Call(w, a) ==
    /\ CanCall(w)
    /\ ops_left' = [ops_left EXCEPT ![w] = @ - 1]
    /\ wargs' = [wargs EXCEPT ![w] = a]
    /\ wraised' = [wraised EXCEPT ![w] = FALSE]
    /\ wpc' = [wpc EXCEPT ![w] =
                 IF a.op = "add_record" THEN "ar_lock"
                 ELSE IF a.op = "log_verbose" \/ verbose THEN "lv_lock"
                 ELSE "info_lock"]
    /\ UNCHANGED <<rtVars, procVars, fsVars, ctlVars, auxVars, logVars, wrec, wbuf>>

\* Lock.acquire() returns only when no one holds the lock.
CanAcquireAlways(w) == TRUE

CanAcquire(w) == log_lock = 0

\* "with self.log_lock:" (lines 258, 271, 302), leaving, normally or by an
\* exception: the value of the lock once its holder has left.
ReleaseLockKept(holder) == holder

ReleaseLock(holder) == 0

\* "with self.log_lock:" (lines 258, 271, 302), entering.
Acquire(w) ==
    /\ wpc[w] \in {"ar_lock", "lv_lock", "info_lock"}
    /\ CanAcquire(w)
    /\ log_lock' = w
    /\ wpc' = [wpc EXCEPT ![w] =
                 IF wpc[w] = "ar_lock" THEN "ar_format"
                 ELSE IF wpc[w] = "lv_lock" THEN "lv_echo"
                 ELSE "info_echo"]
    /\ UNCHANGED <<rtVars, procVars, fsVars, ctlVars, auxVars, record_file, debug_file,
                   console, wargs, wrec, wbuf, wraised, ops_left>>

\* Lines 303-308: the record is formatted; an AssertionError leaves the with
\* block, which releases the lock, and nothing is written.
AddRecordFormat(w) ==
    /\ wpc[w] = "ar_format"
    /\ LET r == FormatRecord(wargs[w].record_type, wargs[w].kwargs)
       IN  IF r.raised
           THEN /\ wraised' = [wraised EXCEPT ![w] = TRUE]
                /\ log_lock' = ReleaseLock(w)
                /\ wpc' = [wpc EXCEPT ![w] = "idle"]
                /\ wrec' = [wrec EXCEPT ![w] = r.record]
           ELSE /\ wrec' = [wrec EXCEPT ![w] = r.record]
                /\ wpc' = [wpc EXCEPT ![w] = "ar_write"]
                /\ UNCHANGED <<wraised, log_lock>>
    /\ UNCHANGED <<rtVars, procVars, fsVars, ctlVars, auxVars, record_file, debug_file,
                   console, wargs, wbuf, ops_left>>

\* Line 311: self.record_log.write("%s\n" % record).  The text goes to the
\* worker's file buffer; a full buffer writes any part of it through to the
\* file at once.
AddRecordWrite(w) ==
    /\ wpc[w] = "ar_write"
    /\ LET text == wbuf[w] \o wrec[w] \o <<LF>>
       IN  \E n \in 0..Len(text) :
             /\ record_file' = record_file \o SubSeq(text, 1, n)
             /\ wbuf' = [wbuf EXCEPT ![w] = SubSeq(text, n + 1, Len(text))]
    /\ wpc' = [wpc EXCEPT ![w] = "ar_flush"]
    /\ UNCHANGED <<rtVars, procVars, fsVars, ctlVars, auxVars, log_lock, debug_file,
                   console, wargs, wrec, wraised, ops_left>>

\* Line 312: self.record_log.flush(); the with block ends after it.
AddRecordFlush(w) ==
    /\ wpc[w] = "ar_flush"
    /\ record_file' = record_file \o wbuf[w]
    /\ wbuf' = [wbuf EXCEPT ![w] = <<>>]
    /\ wpc' = [wpc EXCEPT ![w] = "unlock"]
    /\ UNCHANGED <<rtVars, procVars, fsVars, ctlVars, auxVars, log_lock, debug_file,
                   console, wargs, wrec, wraised, ops_left>>

\* Lines 259-260: log_verbose echoes the message when verbose is set.
LogVerboseEcho(w) ==
    /\ wpc[w] = "lv_echo"
    /\ console' = IF verbose THEN Append(console, wargs[w].message) ELSE console
    /\ wpc' = [wpc EXCEPT ![w] = "lv_write"]
    /\ UNCHANGED <<rtVars, procVars, fsVars, ctlVars, auxVars, log_lock, record_file,
                   debug_file, wargs, wrec, wbuf, wraised, ops_left>>

\* Lines 261-262: the message is written to debug.log and flushed.
LogVerboseWrite(w) ==
    /\ wpc[w] = "lv_write"
    /\ debug_file' = Append(debug_file, wargs[w].message)
    /\ wpc' = [wpc EXCEPT ![w] = "unlock"]
    /\ UNCHANGED <<rtVars, procVars, fsVars, ctlVars, auxVars, log_lock, record_file,
                   console, wargs, wrec, wbuf, wraised, ops_left>>

\* Line 272: info() when verbose is not set echoes the message.
InfoEcho(w) ==
    /\ wpc[w] = "info_echo"
    /\ console' = Append(console, wargs[w].message)
    /\ wpc' = [wpc EXCEPT ![w] = "unlock"]
    /\ UNCHANGED <<rtVars, procVars, fsVars, ctlVars, auxVars, log_lock, record_file,
                   debug_file, wargs, wrec, wbuf, wraised, ops_left>>

\* The end of a with block: the lock is released and the call returns.
Release(w) ==
    /\ wpc[w] = "unlock"
    /\ log_lock' = ReleaseLock(w)
    /\ wpc' = [wpc EXCEPT ![w] = "idle"]
    /\ UNCHANGED <<rtVars, procVars, fsVars, ctlVars, auxVars, record_file, debug_file,
                   console, wargs, wrec, wbuf, wraised, ops_left>>

AddRecord(w) ==
    \/ Acquire(w)
    \/ AddRecordFormat(w)
    \/ AddRecordWrite(w)
    \/ AddRecordFlush(w)
    \/ Release(w)

Logging(w) ==
    \/ LogVerboseEcho(w)
    \/ LogVerboseWrite(w)
    \/ InfoEcho(w)

\* ---------------------------------------------------------------- lookups
\* resolve_image (lines 322-327).  images is the set of keys of
\* self.image_map; the metadata registered under a name is written as the name.
ResolveImageResultRequired(images, distgit_name, required) ==
    IF distgit_name \notin images
    THEN [kind |-> "IOError", value |-> 0]
    ELSE [kind |-> "returned", value |-> distgit_name]

ResolveImageResult(images, distgit_name, required) ==
    IF distgit_name \notin images
    THEN IF ~required
         THEN [kind |-> "None", value |-> 0]
         ELSE [kind |-> "IOError", value |-> 0]
    ELSE [kind |-> "returned", value |-> distgit_name]

\* resolve_stream (lines 329-338).
ResolveStreamResultStreamsFirst(overrides, strms, stream_name) ==
    IF stream_name \in DOMAIN strms
    THEN [kind |-> "returned", value |-> strms[stream_name]]
    ELSE IF stream_name \notin DOMAIN overrides
    THEN [kind |-> "IOError", value |-> 0]
    ELSE [kind |-> "returned", value |-> overrides[stream_name]]

ResolveStreamResult(overrides, strms, stream_name) ==
    IF stream_name \in DOMAIN overrides
    THEN [kind |-> "returned", value |-> overrides[stream_name]]
    ELSE IF stream_name \notin DOMAIN strms
    THEN [kind |-> "IOError", value |-> 0]
    ELSE [kind |-> "returned", value |-> strms[stream_name]]

\* The caller calls resolve_image(distgit_name, required).
ResolveImage(distgit_name, required) ==
    /\ pc \in {"idle", "returned"}
    /\ LET r == ResolveImageResult(image_map, distgit_name, required) IN
         result' = [op |-> "resolve_image", name |-> distgit_name,
                    required |-> required, kind |-> r.kind, value |-> r.value]
    /\ UNCHANGED <<stream_alias_overrides, registered>>
    /\ UNCHANGED <<rtVars, procVars, fsVars, ctlVars, logVars, workerVars,
                   cfgVars, envVars, flagVars, exitVars>>

\* The caller calls resolve_stream(stream_name).
ResolveStream(stream_name) ==
    /\ pc \in {"idle", "returned"}
    /\ LET r == ResolveStreamResult(stream_alias_overrides, streams, stream_name) IN
         result' = [op |-> "resolve_stream", name |-> stream_name,
                    required |-> FALSE, kind |-> r.kind, value |-> r.value]
    /\ UNCHANGED <<stream_alias_overrides, registered>>
    /\ UNCHANGED <<rtVars, procVars, fsVars, ctlVars, logVars, workerVars,
                   cfgVars, envVars, flagVars, exitVars>>

\* The caller calls register_stream_alias(alias, image) (lines 283-285), once
\* initialize() has opened the debug log: info() echoes the message, or, if
\* verbose, log_verbose echoes it and writes it to the debug log; then the
\* override is stored.
RegisterStreamAlias(alias, image) ==
    /\ pc = "returned"
    /\ log_lock = 0
    /\ Len(registered) < MaxRegs
    /\ console' = Append(console, <<"r">>)
    /\ debug_file' = IF verbose THEN Append(debug_file, <<"r">>) ELSE debug_file
    /\ stream_alias_overrides' = DictPut(stream_alias_overrides, alias, image)
    /\ registered' = Append(registered, <<alias, image>>)
    /\ UNCHANGED <<result, log_lock, record_file>>
    /\ UNCHANGED <<rtVars, procVars, fsVars, ctlVars, workerVars, cfgVars,
                   envVars, flagVars, exitVars>>

\* ------------------------------------------------------------ the flag store
\* flag_exists (lines 346-347): os.path.isfile on the flag's file.
FlagExistsResult(flags, f) == f \in flags

\* os.remove on an existing file (line 352).
FlagsAfterRemoveAll(flags, f) == {}

FlagsAfterRemove(flags, f) == flags \ {f}

\* A worker calls flag_create, flag_exists or flag_remove on flag f.  The
\* flags directory is known once initialize() has returned.
FlagCall(w, op, f) ==
    /\ pc = "returned"
    /\ fpc[w] = "idle"
    /\ flag_ops_left[w] > 0
    /\ flag_ops_left' = [flag_ops_left EXCEPT ![w] = @ - 1]
    /\ fargs' = [fargs EXCEPT ![w] = [op |-> op, flag |-> f]]
    /\ fres' = [fres EXCEPT ![w] = NoFlagResult]
    /\ fpc' = [fpc EXCEPT ![w] =
                 IF op = "flag_create" THEN "create"
                 ELSE IF op = "flag_exists" THEN "exists"
                 ELSE "remove_check"]
    /\ UNCHANGED <<fs_flags, flag_last>>
    /\ UNCHANGED <<rtVars, procVars, fsVars, ctlVars, logVars, workerVars,
                   cfgVars, envVars, lookupVars, exitVars>>

\* flag_create (lines 343-345): open(..., 'w') creates the file or truncates it.
FlagCreate(w) ==
    /\ fpc[w] = "create"
    /\ fs_flags' = fs_flags \cup {fargs[w].flag}
    /\ flag_last' = [flag_last EXCEPT ![fargs[w].flag] = "create"]
    /\ fres' = [fres EXCEPT ![w] = [kind |-> "returned", value |-> FALSE]]
    /\ fpc' = [fpc EXCEPT ![w] = "idle"]
    /\ UNCHANGED <<fargs, flag_ops_left>>
    /\ UNCHANGED <<rtVars, procVars, fsVars, ctlVars, logVars, workerVars,
                   cfgVars, envVars, lookupVars, exitVars>>

\* flag_exists (lines 346-347).
FlagExists(w) ==
    /\ fpc[w] = "exists"
    /\ fres' = [fres EXCEPT ![w] =
                  [kind |-> "returned",
                   value |-> FlagExistsResult(fs_flags, fargs[w].flag)]]
    /\ fpc' = [fpc EXCEPT ![w] = "idle"]
    /\ UNCHANGED <<fs_flags, fargs, flag_last, flag_ops_left>>
    /\ UNCHANGED <<rtVars, procVars, fsVars, ctlVars, logVars, workerVars,
                   cfgVars, envVars, lookupVars, exitVars>>

\* flag_remove, line 351: the test "if self.flag_exists(flag_name)".
FlagRemoveCheck(w) ==
    /\ fpc[w] = "remove_check"
    /\ IF FlagExistsResult(fs_flags, fargs[w].flag)
       THEN /\ fpc' = [fpc EXCEPT ![w] = "remove_unlink"]
            /\ UNCHANGED <<fres, flag_last>>
       ELSE /\ fpc' = [fpc EXCEPT ![w] = "idle"]
            /\ fres' = [fres EXCEPT ![w] = [kind |-> "returned", value |-> FALSE]]
            /\ flag_last' = [flag_last EXCEPT ![fargs[w].flag] = "remove"]
    /\ UNCHANGED <<fs_flags, fargs, flag_ops_left>>
    /\ UNCHANGED <<rtVars, procVars, fsVars, ctlVars, logVars, workerVars,
                   cfgVars, envVars, lookupVars, exitVars>>

\* flag_remove, line 352: os.remove, which raises OSError when the file is
\* not there any more.
FlagRemoveUnlink(w) ==
    /\ fpc[w] = "remove_unlink"
    /\ IF fargs[w].flag \in fs_flags
       THEN /\ fs_flags' = FlagsAfterRemove(fs_flags, fargs[w].flag)
            /\ fres' = [fres EXCEPT ![w] = [kind |-> "returned", value |-> FALSE]]
            /\ flag_last' = [flag_last EXCEPT ![fargs[w].flag] = "remove"]
       ELSE /\ fres' = [fres EXCEPT ![w] = [kind |-> "OSError", value |-> FALSE]]
            /\ UNCHANGED <<fs_flags, flag_last>>
    /\ fpc' = [fpc EXCEPT ![w] = "idle"]
    /\ UNCHANGED <<fargs, flag_ops_left>>
    /\ UNCHANGED <<rtVars, procVars, fsVars, ctlVars, logVars, workerVars,
                   cfgVars, envVars, lookupVars, exitVars>>

FlagOps == {"flag_create", "flag_exists", "flag_remove"}

FlagStep(w) ==
    \/ FlagCreate(w)
    \/ FlagExists(w)
    \/ FlagRemoveCheck(w)
    \/ FlagRemoveUnlink(w)

vars == <<rtVars, procVars, fsVars, ctlVars, logVars, workerVars, auxVars>>

\* ------------------------------------------------------------ specification
\* Selection: one call of initialize() on a Runtime built with every
\* combination of include, optional_include and exclude over Names, against
\* every listing of the images and rpms directories.
Init ==
    /\ \E inc \in SUBSET Names, opt \in SUBSET Names, exc \in SUBSET Names :
         Constructed(Some("g"), "given", Some(inc), Some(exc), opt, FALSE)
    /\ fs_images \in Listings(Names)
    /\ fs_rpms \in Listings(Names)
    /\ fs_subdirs = FALSE
    /\ calls_left = 1
    /\ ops_left = [w \in Workers |-> 0]
    /\ PlainEnvironment

Next == Initialize

Spec == Init /\ [][Next]_vars

\* Life cycle: the caller calls initialize() up to MaxCalls times on a Runtime
\* built with or without a group, a working directory, an include and an
\* exclude list, in a working directory that has its sub-directories or not
\* and a group directory that has its images and rpms directories or not;
\* then the process ends.
LifeInit ==
    /\ \E g \in {NoneVal, Some("g")}, wd \in {"None", "given"},
          inc \in {NoneVal, Some({}), Some({1})},
          exc \in {NoneVal, Some({}), Some({1})} :
         Constructed(g, wd, inc, exc, {}, FALSE)
    /\ fs_images \in {<<>>, <<1>>}
    /\ fs_rpms \in {<<>>, <<1>>}
    /\ fs_subdirs \in BOOLEAN
    /\ calls_left = MaxCalls
    /\ ops_left = [w \in Workers |-> 0]
    /\ fs_kind_dirs \in SUBSET KindDirs
    /\ fs_streams = NoneVal
    /\ fs_flags = {}
    /\ flag_ops_left = [w \in Workers |-> 0]

LifeNext ==
    \/ Initialize
    \/ ProcessExit
    \/ RunExitHandler

SpecLife == LifeInit /\ [][LifeNext]_vars

\* The record log: one worker makes one call of add_record, with every
\* record type and every keyword arguments within the bounds, on a Runtime
\* initialized over one image.
RecordInit ==
    /\ Constructed(Some("g"), "given", Some({}), Some({}), {}, FALSE)
    /\ fs_images = <<1>>
    /\ fs_rpms = <<>>
    /\ fs_subdirs = FALSE
    /\ calls_left = 1
    /\ ops_left = [w \in Workers |-> IF w = 1 THEN 1 ELSE 0]
    /\ PlainEnvironment

\* The one caller calls add_record.
RecordCall == CanCall(1) /\ \E a \in RecordInputs : Call(1, a)

RecordNext ==
    \/ Initialize
    \/ RecordCall
    \/ AddRecord(1)

SpecRecord == RecordInit /\ [][RecordNext]_vars

\* The log lock: every worker makes up to MaxOps calls of add_record, info and
\* log_verbose, in any interleaving, with verbose set or not.
LogInit ==
    /\ \E v \in BOOLEAN :
         Constructed(Some("g"), "given", Some({}), Some({}), {}, v)
    /\ fs_images = <<1>>
    /\ fs_rpms = <<>>
    /\ fs_subdirs = FALSE
    /\ calls_left = 1
    /\ ops_left = [w \in Workers |-> MaxOps]
    /\ PlainEnvironment

\* A worker calls add_record, info or log_verbose.
WorkerCall(w) == CanCall(w) /\ \E a \in WorkerInputs : Call(w, a)

LogNext ==
    \/ Initialize
    \/ \E w \in Workers :
         \/ WorkerCall(w)
         \/ AddRecord(w)
         \/ Logging(w)

SpecLog == LogInit /\ [][LogNext]_vars

\* The flag store, one caller: the caller makes up to MaxFlagOps calls of
\* flag_create, flag_exists and flag_remove, one after the other, in a flags
\* directory that holds any of the flags at the start.
FlagInit ==
    /\ Constructed(Some("g"), "given", Some({}), Some({}), {}, FALSE)
    /\ fs_images = <<1>>
    /\ fs_rpms = <<>>
    /\ fs_subdirs \in BOOLEAN
    /\ calls_left = 1
    /\ ops_left = [w \in Workers |-> 0]
    /\ fs_kind_dirs = KindDirs
    /\ fs_streams = NoneVal
    /\ fs_flags \in SUBSET Flags
    /\ flag_ops_left = [w \in Workers |-> IF w = 1 THEN MaxFlagOps ELSE 0]

\* The one caller calls a flag operation on any flag.
FlagCallAny == \E op \in FlagOps, f \in Flags : FlagCall(1, op, f)

FlagNext ==
    \/ Initialize
    \/ FlagCallAny
    \/ FlagStep(1)

SpecFlags == FlagInit /\ [][FlagNext]_vars

\* The flag store, several callers: every worker makes up to MaxOps flag
\* calls, all on one flag, in any interleaving.
SharedFlagInit ==
    /\ Constructed(Some("g"), "given", Some({}), Some({}), {}, FALSE)
    /\ fs_images = <<1>>
    /\ fs_rpms = <<>>
    /\ fs_subdirs \in BOOLEAN
    /\ calls_left = 1
    /\ ops_left = [w \in Workers |-> 0]
    /\ fs_kind_dirs = KindDirs
    /\ fs_streams = NoneVal
    /\ fs_flags \in SUBSET {1}
    /\ flag_ops_left = [w \in Workers |-> MaxOps]

\* A worker calls a flag operation on the shared flag.
FlagCallShared(w) == \E op \in FlagOps : FlagCall(w, op, 1)

SharedFlagNext ==
    \/ Initialize
    \/ \E w \in Workers :
         \/ FlagCallShared(w)
         \/ FlagStep(w)

SpecSharedFlags == SharedFlagInit /\ [][SharedFlagNext]_vars

\* Image lookup: the caller calls resolve_image with every name, required or
\* not, before and after one call of initialize() with any exclude list over
\* every listing of the images directory.
ImageInit ==
    /\ \E exc \in SUBSET Names :
         Constructed(Some("g"), "given", Some({}), Some(exc), {}, FALSE)
    /\ fs_images \in Listings(Names)
    /\ fs_rpms = <<1>>
    /\ fs_subdirs = FALSE
    /\ calls_left = 1
    /\ ops_left = [w \in Workers |-> 0]
    /\ PlainEnvironment

ResolveImageAny == \E n \in Names, required \in BOOLEAN : ResolveImage(n, required)

ImageNext ==
    \/ Initialize
    \/ ResolveImageAny

SpecImages == ImageInit /\ [][ImageNext]_vars

\* Stream lookup: after initialize() over a group with any streams.yml or
\* none, the caller makes up to MaxRegs calls of register_stream_alias and
\* calls resolve_stream with every name, in any order.
StreamInit ==
    /\ \E v \in BOOLEAN :
         Constructed(Some("g"), "given", Some({}), Some({}), {}, v)
    /\ fs_images = <<1>>
    /\ fs_rpms = <<>>
    /\ fs_subdirs = FALSE
    /\ calls_left = 1
    /\ ops_left = [w \in Workers |-> 0]
    /\ fs_kind_dirs = KindDirs
    /\ fs_streams \in {NoneVal} \cup {Some(d) : d \in Dicts(StreamNames, Names)}
    /\ fs_flags = {}
    /\ flag_ops_left = [w \in Workers |-> 0]

RegisterStreamAliasAny ==
    \E alias \in StreamNames, image \in Names : RegisterStreamAlias(alias, image)

ResolveStreamAny == \E n \in StreamNames : ResolveStream(n)

StreamNext ==
    \/ Initialize
    \/ RegisterStreamAliasAny
    \/ ResolveStreamAny

SpecStreams == StreamInit /\ [][StreamNext]_vars

\* The log lock under fair scheduling: the first worker makes up to MaxOps
\* calls and every other worker one call, of add_record (also one that
\* raises), info and log_verbose; a worker that can take a step of its call
\* for ever eventually takes one.
FairInit ==
    /\ \E v \in BOOLEAN :
         Constructed(Some("g"), "given", Some({}), Some({}), {}, v)
    /\ fs_images = <<1>>
    /\ fs_rpms = <<>>
    /\ fs_subdirs = FALSE
    /\ calls_left = 1
    /\ ops_left = [w \in Workers |-> IF w = 1 THEN MaxOps ELSE 1]
    /\ PlainEnvironment

FairCall(w) == CanCall(w) /\ \E a \in FairInputs : Call(w, a)

WorkerStep(w) == AddRecord(w) \/ Logging(w)

FairNext ==
    \/ Initialize
    \/ \E w \in Workers :
         \/ FairCall(w)
         \/ WorkerStep(w)

SpecLogFair ==
    /\ FairInit
    /\ [][FairNext]_vars
    /\ \A w \in Workers : WF_vars(WorkerStep(w))

\* ------------------------------------------------------------------- claims
\* Names found on disk, of either kind.
Discovered == ToSet(fs_images) \cup ToSet(fs_rpms)

\* The selection pass over both kinds has run.
Selected ==
    \/ pc \in {"finish", "returned"}
    \/ pc = "failed" /\ error.kind = "EmptySelectionError"

\* How many of the two registries hold the name.
Admissions(n) ==
    (IF n \in image_map THEN 1 ELSE 0) + (IF n \in rpm_map THEN 1 ELSE 0)

\* C1: whenever initialize() succeeds with include or optional_include
\* non-empty, every registered image and package name is a member of include
\* or of optional_include.
C1_SelectiveAdmitsOnlyListed ==
    (pc = "returned" /\ (Val(include) # {} \/ optional_include # {}))
        => (image_map \cup rpm_map) \subseteq (Val(include) \cup optional_include)

\* C2: with a non-empty include list, when initialize() has not failed every
\* name of include is in exactly one of the two registries.
C2_IncludeExactlyOnce ==
    (pc = "returned" /\ Val(include) # {})
        => \A n \in Val(include) : Admissions(n) = 1

\* C3: no name of exclude is ever in a registry, whatever include and
\* optional_include hold, and the missing-include failure names only names
\* that are on disk in neither kind (never a name that is merely excluded).
C3_ExcludeWins ==
    /\ ~IsNone(exclude) => (image_map \cup rpm_map) \cap Val(exclude) = {}
    /\ error.kind = "SelectionError" =>
         /\ error.names # {}
         /\ error.names \cap Discovered = {}

\* C3 witness: initialize() returned although a name on disk is in include and
\* in exclude; that name is in no registry.
C3_Witness ==
    /\ pc = "returned"
    /\ \E n \in Val(include) \cap Val(exclude) :
         n \in Discovered /\ n \notin image_map \cup rpm_map

\* C4: with include and optional_include both empty, after the selection pass
\* each registry holds exactly the names of its kind on disk minus exclude.
C4_ExclusionOnly ==
    (Selected /\ Val(include) = {} /\ optional_include = {})
        => /\ image_map = ToSet(fs_images) \ Val(exclude)
           /\ rpm_map = ToSet(fs_rpms) \ Val(exclude)

\* C4 witness: an exclusion-only run that returned, excluded a name on disk and
\* admitted another.
C4_Witness ==
    /\ pc = "returned"
    /\ Val(include) = {} /\ optional_include = {}
    /\ Val(exclude) \cap Discovered # {}
    /\ image_map # {}
    /\ rpm_map # {}

\* C5: when a name of include is on disk in neither kind, initialize() never
\* gets to the registration pass; it fails with the missing-include error,
\* which names exactly the missing names, and both registries are empty then.
C5_MissingIncludeFails ==
    /\ (~IsNone(include) /\ Val(include) \ Discovered # {})
          => pc \notin {"collect_images", "collect_rpms", "finish", "returned"}
    /\ (pc = "failed" /\ error.kind = "SelectionError")
          => /\ error.names = Val(include) \ Discovered
             /\ error.names # {}
             /\ image_map = {} /\ rpm_map = {}

\* C5 witness: the missing-include failure with another include name on disk,
\* which a registration pass would have admitted.
C5_Witness ==
    /\ pc = "failed" /\ error.kind = "SelectionError"
    /\ Val(include) \cap Discovered # {}
    /\ (Val(include) \cap Discovered) \ Val(exclude) # {}

\* C6: initialized is true once initialize() has returned, and the set-up is
\* done once: the two logs are opened once, at most three exit handlers are
\* registered, the sub-directories are created at most once.
C6_InitializedOnce ==
    /\ pc = "returned" => initialized
    /\ opened <= 2
    /\ Len(atexit) <= 3
    /\ mkdirs <= 4

\* C7: whenever initialize() has returned normally at least one artifact is
\* registered.
C7_NeverEmpty ==
    pc = "returned" => image_map \cup rpm_map # {}

\* C7 witness: every included name is on disk and excluded, and initialize()
\* failed with the empty-selection error.
C7_Witness ==
    /\ pc = "failed" /\ error.kind = "EmptySelectionError"
    /\ Val(include) # {}
    /\ Val(include) \subseteq Val(exclude)
    /\ Val(include) \subseteq Discovered

\* The one caller's add_record call has returned without raising.
RecordWritten ==
    /\ wpc[1] = "idle"
    /\ wargs[1].op = "add_record"
    /\ ~wraised[1]

\* C8: the text one add_record call writes to record.log holds exactly one
\* line-feed, which is its last character, and the character before it is "|".
C8_OneRecordPerLine ==
    RecordWritten =>
        /\ Len(record_file) >= 2
        /\ record_file[Len(record_file)] = LF
        /\ record_file[Len(record_file) - 1] = "|"
        /\ Cardinality({i \in 1..Len(record_file) : record_file[i] = LF}) = 1

\* s.split(c): the pieces of s between the occurrences of c.
RECURSIVE SplitOn(_, _)
SplitOn(s, c) ==
    IF ~InList(c, s) THEN <<s>>
    ELSE LET i == CHOOSE n \in 1..Len(s) : s[n] = c /\ \A m \in 1..(n - 1) : s[m] # c
         IN  <<SubSeq(s, 1, i - 1)>> \o SplitOn(SubSeq(s, i + 1, Len(s)), c)

\* s.split(c, 1): s cut at its first c.
SplitFirst(s, c) ==
    IF ~InList(c, s) THEN <<s>>
    ELSE LET i == CHOOSE n \in 1..Len(s) : s[n] = c /\ \A m \in 1..(n - 1) : s[m] # c
         IN  <<SubSeq(s, 1, i - 1), SubSeq(s, i + 1, Len(s))>>

\* The documented substitution in a value: a line-feed becomes " ;;; ", a
\* carriage return disappears.
RECURSIVE Substituted(_)
Substituted(v) ==
    IF v = <<>> THEN <<>>
    ELSE (IF Head(v) = LF THEN <<" ", ";", ";", ";", " ">>
          ELSE IF Head(v) = CR THEN <<>>
          ELSE <<Head(v)>>) \o Substituted(Tail(v))

\* Reading the written text back: without its final line-feed, split on "|",
\* it is the record type, then the pairs of the call in order, each split at
\* its first "=" into the key and the substituted value, then an empty piece.
RoundTrips ==
    LET line == SubSeq(record_file, 1, Len(record_file) - 1)
        parts == SplitOn(line, "|")
        kwargs == wargs[1].kwargs
    IN  /\ record_file # <<>>
        /\ record_file[Len(record_file)] = LF
        /\ Len(parts) = Len(kwargs) + 2
        /\ parts[1] = wargs[1].record_type
        /\ parts[Len(parts)] = <<>>
        /\ \A i \in 1..Len(kwargs) :
             SplitFirst(parts[i + 1], "=") = <<kwargs[i][1], Substituted(kwargs[i][2])>>

\* The call's texts hold no delimiter: no "|" in the record type, no "|" and
\* no "=" in a key, no "|" in a value.
NoDelimiters ==
    /\ ~InList("|", wargs[1].record_type)
    /\ \A i \in 1..Len(wargs[1].kwargs) :
         /\ ~InList("|", wargs[1].kwargs[i][1])
         /\ ~InList("=", wargs[1].kwargs[i][1])
         /\ ~InList("|", wargs[1].kwargs[i][2])

\* C9 as stated: every record written reads back as the record type and the
\* original pairs, up to the newline substitution.
C9_RoundTripAlways == RecordWritten => RoundTrips

\* C9 amended: a record written from texts that hold no delimiter reads back
\* as the record type and the original pairs, up to the newline substitution.
C9_RoundTrip == (RecordWritten /\ NoDelimiters) => RoundTrips

\* C9 witness: a record without delimiters was written whose value holds a
\* line-feed.
C9_Witness ==
    /\ RecordWritten /\ NoDelimiters
    /\ \E i \in 1..Len(wargs[1].kwargs) : InList(LF, wargs[1].kwargs[i][2])

\* Positions of a worker inside a "with self.log_lock:" block.
InWithBlock ==
    {"ar_format", "ar_write", "ar_flush", "lv_echo", "lv_write", "info_echo", "unlock"}

\* The lines add_record writes for the calls the workers make.
WorkerLines ==
    {FormatRecord(a.record_type, a.kwargs).record : a \in {x \in WorkerInputs : x.op = "add_record"}}

\* The text of record.log after its last line-feed.
OpenLine == LET parts == SplitOn(record_file, LF) IN parts[Len(parts)]

\* C10: a worker formats, writes, flushes or echoes only while it holds the
\* log lock, and record.log is whole record lines, followed at most by the
\* beginning of the line the lock holder is writing, whose rest is in that
\* worker's buffer.
C10_WholeLines ==
    /\ \A w \in Workers : wpc[w] \in InWithBlock => log_lock = w
    /\ \A w \in Workers : wbuf[w] # <<>> => log_lock = w
    /\ LET parts == SplitOn(record_file, LF)
       IN  \A i \in 1..(Len(parts) - 1) : parts[i] \in WorkerLines
    /\ \/ OpenLine = <<>>
       \/ \E w \in Workers :
            /\ log_lock = w
            /\ wpc[w] = "ar_flush"
            /\ OpenLine \o wbuf[w] = wrec[w] \o <<LF>>

\* C10 witness: a worker holds the lock with half a line on disk and the rest
\* in its buffer while another worker waits for the lock.
C10_Witness ==
    \E w, v \in Workers :
        /\ w # v
        /\ wpc[w] = "ar_flush" /\ OpenLine # <<>> /\ wbuf[w] # <<>>
        /\ wpc[v] \in {"ar_lock", "lv_lock", "info_lock"}

\* A flag call of worker w has returned or raised.
FlagCallDone(w) == fpc[w] = "idle" /\ fargs[w].op # "none"

\* C11: with a single caller, after any sequence of flag_create and
\* flag_remove calls a flag exists exactly when the last of them on its name
\* was a create, and flag_exists reports just that; creating an existing flag
\* and removing an absent one both return without an error; and a call on
\* one name changes the existence of no other name.
C11_Sequential ==
    /\ [](\A f \in Flags :
            /\ flag_last[f] = "create" => f \in fs_flags
            /\ flag_last[f] = "remove" => f \notin fs_flags)
    /\ [](FlagCallDone(1) =>
            /\ fres[1].kind = "returned"
            /\ fargs[1].op = "flag_exists" =>
                 fres[1].value = (fargs[1].flag \in fs_flags))
    /\ [][\A f \in Flags :
            (f \in fs_flags) # (f \in fs_flags') =>
               fpc[1] # "idle" /\ fargs[1].flag = f]_vars

\* The caller removed a flag that was there while another flag stayed, after
\* having called an operation before.
C11_Witness ==
    /\ FlagCallDone(1)
    /\ fargs[1].op = "flag_remove"
    /\ flag_last[fargs[1].flag] = "remove"
    /\ flag_ops_left[1] = 0
    /\ \E g \in Flags : g # fargs[1].flag /\ flag_last[g] = "create" /\ g \in fs_flags

\* C12: with several workers calling flag_create, flag_exists and flag_remove
\* on the same flag in any interleaving, no call fails; in particular two
\* concurrent flag_remove calls both return without an error.
C12_NoFlagCallFails == \A w \in Workers : fres[w].kind # "OSError"

\* The recursive removal of the working directory is registered with atexit.
RemovalRegistered == InList(<<"remove_tmp_working_dir">>, atexit)

\* C13: a working directory the caller supplied is never removed at process
\* exit; the recursive removal is registered only when no working directory
\* was given and a temporary one was created; and over any sequence of
\* initialize() calls it is registered at most once.
C13_CallerDirectoryKept ==
    /\ "given" \notin removed
    /\ working_dir = "given" => ~RemovalRegistered /\ removed = {}
    /\ RemovalRegistered => working_dir = "tmp" /\ remove_tmp_working_dir
    /\ Cardinality({i \in 1..Len(atexit) : atexit[i] = <<"remove_tmp_working_dir">>}) <= 1

\* The process has ended after initialize() made a temporary working
\* directory in its first call and was called again: the one registered
\* removal has run.
C13_Witness ==
    /\ Exited
    /\ calls_left = 0
    /\ opened = 4
    /\ removed = {"tmp"}

\* C18: at process exit after an initialize() that made a temporary working
\* directory, both log files (and every file initialize() opened) are closed
\* before the recursive removal of the directory runs, and each registered
\* teardown action runs exactly once: none twice, and all by the end.
C18_TeardownOrder ==
    /\ removed # {} =>
          /\ debug_log \in closed /\ record_log \in closed
          /\ \A h \in 1..opened : h \in closed
    /\ Cardinality(ToSet(ran)) = Len(ran)
    /\ ToSet(ran) \subseteq ToSet(atexit)
    /\ Exited => ToSet(ran) = ToSet(atexit)

\* The process has ended after one initialize() that made a temporary working
\* directory: its two log files were closed and the directory removed.
C18_Witness ==
    /\ Exited
    /\ removed = {"tmp"}
    /\ debug_log = 1 /\ record_log = 2
    /\ closed = {1, 2}
    /\ Len(ran) = 3

\* C14: resolve_image changes neither registry (nor the stream tables); it
\* returns the registered metadata when the name is registered; when it is
\* not, it raises the not-found error if required, and returns None if not.
C14_ResolveImage ==
    [][(result' # result /\ result'.op = "resolve_image") =>
         /\ image_map' = image_map
         /\ rpm_map' = rpm_map
         /\ streams' = streams
         /\ stream_alias_overrides' = stream_alias_overrides
         /\ result'.name \in image_map =>
              result'.kind = "returned" /\ result'.value = result'.name
         /\ (result'.name \notin image_map /\ result'.required) =>
              result'.kind = "IOError"
         /\ (result'.name \notin image_map /\ ~result'.required) =>
              result'.kind = "None"]_vars

\* After initialize() registered an image, a lookup of another name, not
\* required, returned None.
C14_Witness ==
    /\ pc = "returned"
    /\ image_map # {}
    /\ result.op = "resolve_image"
    /\ result.name \notin image_map
    /\ ~result.required
    /\ result.kind = "None"

\* The images registered as overrides of stream name n, in call order.
RECURSIVE OverridesOf(_, _)
OverridesOf(calls, n) ==
    IF calls = <<>> THEN <<>>
    ELSE (IF Head(calls)[1] = n THEN <<Head(calls)[2]>> ELSE <<>>)
         \o OverridesOf(Tail(calls), n)

\* C15: resolve_stream returns the most recently registered override of the
\* name if there is one, even when streams.yml defines the name; otherwise
\* what streams.yml defines; and it raises only when neither defines it.
C15_OverridePrecedence ==
    [][(result' # result /\ result'.op = "resolve_stream") =>
         LET n == result'.name
             ov == OverridesOf(registered, n)
         IN  IF ov # <<>>
             THEN result'.kind = "returned" /\ result'.value = ov[Len(ov)]
             ELSE IF n \in DOMAIN streams
             THEN result'.kind = "returned" /\ result'.value = streams[n]
             ELSE result'.kind = "IOError"]_vars

\* A name that streams.yml defines was overridden twice, with two images,
\* and the lookup returned the second, which is not what streams.yml says.
C15_Witness ==
    /\ result.op = "resolve_stream"
    /\ result.name \in DOMAIN streams
    /\ LET ov == OverridesOf(registered, result.name) IN
         /\ Len(ov) = 2
         /\ ov[1] # ov[2]
         /\ result.value = ov[2]
         /\ result.value # streams[result.name]

\* The fatal errors of initialize(): no group, an invalid metadata, working
\* or group directory, a group name mismatch, a missing include, an empty
\* selection.
FatalKinds == {"usage", "ConfigurationError", "SelectionError", "EmptySelectionError"}

\* C16: when initialize() ends with one of its fatal errors, initialized is
\* false and the image and rpm registries are both empty: a failed
\* initialization never leaves populated registries behind.
C16_AllOrNothing ==
    (pc = "failed" /\ error.kind \in FatalKinds) =>
        /\ ~initialized
        /\ image_map = {}
        /\ rpm_map = {}

\* C17: a name of include or optional_include that is a directory of both
\* images and rpms (and is not excluded) is admitted once, by the kind handled
\* first: it is in the image registry and not in the rpm registry.
C17_ConsumeOnce ==
    pc = "returned" =>
        \A n \in (Val(include) \cup optional_include) \ Val(exclude) :
            (InList(n, fs_images) /\ InList(n, fs_rpms)) =>
                n \in image_map /\ n \notin rpm_map

\* C19: when the images or the rpms directory of the group is missing,
\* initialize() fails with a configuration error before group.yml is read,
\* so before any listing or selection.
C19_KindDirsChecked ==
    (pc \in {"failed", "returned"} /\ ~(KindDirs \subseteq fs_kind_dirs)) =>
        /\ pc = "failed"
        /\ error.kind \in {"usage", "ConfigurationError"}
        /\ group_config = "None"

\* A worker waits for the log lock.
Waiting(w) == wpc[w] \in {"ar_lock", "lv_lock", "info_lock"}

\* C20: no worker asks for the log lock while it holds it, and a worker that
\* has left its call, by return or by an exception, does not hold it; so,
\* under fair scheduling, every worker that called add_record, info or
\* log_verbose eventually gets the lock and finishes its call.
C20_LockLiveness ==
    /\ [](\A w \in Workers : Waiting(w) => log_lock # w)
    /\ [](\A w \in Workers : wpc[w] = "idle" => log_lock # w)
    /\ \A w \in Workers : Waiting(w) ~> (log_lock = w)
    /\ \A w \in Workers : (wpc[w] # "idle") ~> (wpc[w] = "idle")

\* A worker's add_record call ended with an exception and the lock is already
\* held by another worker that had been waiting for it.
C20_Witness ==
    \E w, v \in Workers :
        /\ w # v
        /\ wpc[w] = "idle" /\ wraised[w]
        /\ log_lock = v
        /\ wpc[v] \in InWithBlock

====
